---- MODULE Spec2Model ----
(***************************************************************************)
(* Model of bot.py: the signal-and-state engine of the trend follower.     *)
(*                                                                         *)
(* Spec      the whole program: main block, check_signals cycles over      *)
(*           ASSETS, send_telegram with its dedup gate, save_state /       *)
(*           load_state on the state file, the 60 s sleep, and a process   *)
(*           crash at any control point followed by a restart.             *)
(* SpecGate  the notification dedup gate alone: should_send and mark_sent  *)
(*           applied to arbitrary (instrument, text) pairs as time passes. *)
(* SpecRaise the whole program without crashes, where the body of the loop *)
(*           of check_signals may raise at any point and the loop's except *)
(*           clause takes the next instrument; weakly fair.                *)
(* SpecStore the state store alone: load_state on files as they may be     *)
(*           found, assignments to the snapshot, save_state step by step   *)
(*           (temporary file, json.dump, os.replace), and a crash.         *)
(*                                                                         *)
(* Prices are whole numbers; the float expressions                         *)
(*   price >= entry * (1 + tp / 100)   and                                 *)
(*   price <= entry * (1 - STOP_LOSS / 100)                                *)
(* are evaluated exactly, as 100*price >= entry*(100+tp) and               *)
(* 100*price <= entry*(100-STOP_LOSS).  An optional value (Python None or  *)
(* a value) is the empty sequence or a one-element sequence.               *)
(***************************************************************************)
EXTENDS Integers, Sequences, FiniteSets, TLC

\* ------------------------------------------------------------ constants

ASSETS == <<"A", "B">>

Symbols == {ASSETS[i] : i \in 1..Len(ASSETS)}

STOP_LOSS == 10

TAKE_PROFIT == 40

UPGRADED_TP == 100

MIN_TELEGRAM_INTERVAL == 60

GLOBAL_INTERVAL == 10

SLEEP_SECONDS == 60

EMA_SHORT == 100

EMA_LONG == 200

\* safe_download: retries
RETRIES == 3

\* check_signals: the fewest 4h rows it accepts, max(EMA_LONG, EMA_SHORT) + 2
MIN_4H_ROWS == (IF EMA_LONG > EMA_SHORT THEN EMA_LONG ELSE EMA_SHORT) + 2

\* check_signals: the fewest 1d rows it accepts
MIN_1D_ROWS == 201

\* ------------------------------------------------------------ bounds

\* the clock is not advanced past MaxNow
MaxNow == 60

\* the process crashes at most MaxCrashes times
MaxCrashes == 1

\* the market produces at most MaxSignals entries, exits and upgrades
MaxSignals == 3

\* the clock of the dedup gate harness is not advanced past MaxGateNow
MaxGateNow == 61

\* the ages, in seconds, at which a recorded text is asked for again
MaxAge == 70

\* seconds between two calls of the dedup gate
GateTicks == {5, 6, 50}

\* texts handed to the dedup gate
GateTexts == {<<"X">>, <<"Y">>}

\* close prices of the last 4h bar
Prices == {90, 100, 140}

\* (short EMA, long EMA) of one bar: below, equal, above
EmaPairs == {<<1, 2>>, <<2, 2>>, <<2, 1>>}

\* what one call of yf.download gives: -1 when it raises, else the number of rows
\* of the frame (0: an empty frame; one row too few; just enough)
Results4h == {-1, 0, MIN_4H_ROWS - 1, MIN_4H_ROWS}

Results1d == {-1, 0, MIN_1D_ROWS - 1, MIN_1D_ROWS}

\* ------------------------------------------------------------ values

None == <<>>

Some(v) == <<v>>

\* load_state: one entry of `default`
DefaultPosition ==
    [in_position |-> FALSE, entry_price |-> None,
     take_profit |-> TAKE_PROFIT, last_msg |-> None]

\* load_state: `default`, which has no "global_last_msg" key
DefaultState ==
    [pos |-> [s \in Symbols |-> DefaultPosition],
     has_global |-> FALSE, global_last_msg |-> None]

\* a file: whether it exists, whether open and json.load succeed on it (an
\* unreadable file and a truncated or damaged text raise), and the document the text
\* holds, as far as it was written
NoFile == [exists |-> FALSE, valid |-> FALSE, doc |-> DefaultState]

\* the keys of an instrument's record
Fields == {"in_position", "entry_price", "take_profit", "last_msg"}

\* nothing has opened a position for any instrument
NoOpened == [s \in Symbols |-> [rows |-> None, closed |-> FALSE]]

\* the locals of one iteration of the loop of check_signals
NoLocals ==
    [price |-> 0, prev |-> <<0, 0>>, last |-> <<0, 0>>,
     d_prev |-> <<0, 0>>, d_last |-> <<0, 0>>, len4h |-> 0, len1d |-> 0]

NoBefore == [rec |-> DefaultPosition, global_last_msg |-> None]

VARIABLES
    pc,         \* control point of the process
    creds,      \* TELEGRAM_TOKEN and TELEGRAM_CHAT_ID are both set
    now,        \* int(time.time())
    state,      \* the snapshot `state` of check_signals
    file,       \* STATE_FILE
    idx,        \* number of instruments the for loop has taken
    loc,        \* the price and the EMA rows this iteration reads
    branch,     \* the branch this iteration took
    msg,        \* the text handed to send_telegram
    outcome,    \* how the send_telegram call of this iteration ended
    before,     \* the instrument's record and the global record when its iteration began
    delivered,  \* the last text the channel accepted, until another text is recorded
    crashes,    \* crashes so far
    signals,    \* entries, exits and upgrades so far
    tmp,        \* STATE_FILE + ".tmp"
    opened      \* per instrument: the 4h rows that opened its last position, and
                \* whether that position has closed by take-profit or stop-loss

vars ==
    <<pc, creds, now, state, file, idx, loc, branch, msg, outcome, before,
      delivered, crashes, signals, tmp, opened>>

\* the loop variable of check_signals
symbol == ASSETS[idx]

\* ------------------------------------------------------------ state store

\* a json.load that takes a truncated text for the document written so far
JsonLoad_lenient(f) == Some(f.doc)

\* open and json.load: the document of the file, or None when they raise
JsonLoad(f) == IF f.valid THEN Some(f.doc) ELSE None

\* a default fill that assigns the defaults without testing what the document holds
FillDefaults_overwrite(doc) ==
    [pos |-> [s \in Symbols |-> DefaultPosition],
     has_global |-> TRUE,
     global_last_msg |-> None]

\* a default fill that replaces a record lacking a field by the whole default record
FillDefaults_replaceRecord(doc) ==
    [pos |-> [s \in Symbols |->
                 IF s \in DOMAIN doc.pos /\ DOMAIN doc.pos[s] = Fields
                 THEN doc.pos[s]
                 ELSE DefaultPosition],
     has_global |-> TRUE,
     global_last_msg |-> IF doc.has_global THEN doc.global_last_msg ELSE None]

\* load_state: the loop that completes a document from `default`
FillDefaults(doc) ==
    [pos |-> [s \in Symbols |->
                 IF s \in DOMAIN doc.pos
                 THEN [k \in Fields |->
                          IF k \in DOMAIN doc.pos[s]
                          THEN doc.pos[s][k]
                          ELSE DefaultPosition[k]]
                 ELSE DefaultPosition],
     has_global |-> TRUE,
     global_last_msg |-> IF doc.has_global THEN doc.global_last_msg ELSE None]

\* load_state
LoadState(f) ==
    IF f.exists
    THEN IF JsonLoad(f) = None
         THEN DefaultState
         ELSE FillDefaults(JsonLoad(f)[1])
    ELSE DefaultState

\* save_state: the temporary file, completely written, replaces STATE_FILE
SaveState(st, f) == [exists |-> TRUE, valid |-> TRUE, doc |-> st]

\* ------------------------------------------------------------ dedup gate

\* should_send with the text comparison of the per-instrument rule left out
ShouldSend_anyText(st, sym, text, now_ts) ==
    LET symbol_last == st.pos[sym].last_msg
        global_last == st.global_last_msg
        denySymbol ==
            /\ symbol_last # None
            /\ now_ts - symbol_last[1].ts < MIN_TELEGRAM_INTERVAL
        denyGlobal ==
            /\ global_last # None
            /\ global_last[1].text = text
            /\ now_ts - global_last[1].ts < GLOBAL_INTERVAL
    IN  ~denySymbol /\ ~denyGlobal

\* should_send with the global rule left out
ShouldSend_noGlobal(st, sym, text, now_ts) ==
    LET symbol_last == st.pos[sym].last_msg
        denySymbol ==
            /\ symbol_last # None
            /\ symbol_last[1].text = text
            /\ now_ts - symbol_last[1].ts < MIN_TELEGRAM_INTERVAL
    IN  ~denySymbol

\* should_send
ShouldSend(st, sym, text, now_ts) ==
    LET symbol_last == st.pos[sym].last_msg
        global_last == st.global_last_msg
        denySymbol ==
            /\ symbol_last # None
            /\ symbol_last[1].text = text
            /\ now_ts - symbol_last[1].ts < MIN_TELEGRAM_INTERVAL
        denyGlobal ==
            /\ global_last # None
            /\ global_last[1].text = text
            /\ now_ts - global_last[1].ts < GLOBAL_INTERVAL
    IN  ~denySymbol /\ ~denyGlobal

\* mark_sent: the two records
MarkSent(st, sym, text, now_ts) ==
    [st EXCEPT !.pos[sym].last_msg = Some([text |-> text, ts |-> now_ts]),
               !.has_global = TRUE,
               !.global_last_msg = Some([text |-> text, ts |-> now_ts])]

\* mark_sent without its save_state call: the record waits for the save at cycle end
MarkSentSave_deferred(st, f) == f

\* mark_sent: its save_state call
MarkSentSave(st, f) == SaveState(st, f)

\* ------------------------------------------------------------ downloads

\* safe_download: the number of rows of the frame it returns, the first non-empty
\* frame of its attempts or else an empty frame
SafeDownload(attempts) ==
    IF \E i \in 1..Len(attempts) : attempts[i] > 0
    THEN attempts[CHOOSE i \in 1..Len(attempts) :
                      /\ attempts[i] > 0
                      /\ \A j \in 1..(i - 1) : attempts[j] <= 0]
    ELSE 0

\* the 4h test with one row less
TooFew4h_offByOne(n) == n = 0 \/ n < MIN_4H_ROWS - 1

\* check_signals: df_4h.empty or len(df_4h) < max(EMA_LONG, EMA_SHORT) + 2
TooFew4h(n) == n = 0 \/ n < MIN_4H_ROWS

\* check_signals: df_1d.empty or len(df_1d) < 201
TooFew1d(n) == n = 0 \/ n < MIN_1D_ROWS

\* the frames safe_download can return for the 4h and the 1d request
Frames4h == {SafeDownload(a) : a \in [1..RETRIES -> Results4h]}

Frames1d == {SafeDownload(a) : a \in [1..RETRIES -> Results1d]}

\* the locals of an iteration that has both frames
Locals(n4, n1) == [NoLocals EXCEPT !.len4h = n4, !.len1d = n1]

\* ------------------------------------------------------------ signals

\* the 4h crossover test with non-strict comparisons
EntryCross_nonStrict(prev, last) == prev[1] <= prev[2] /\ last[1] >= last[2]

\* check_signals: the 4h crossover test
EntryCross(prev, last) == prev[1] < prev[2] /\ last[1] > last[2]

\* the daily crossover test with non-strict comparisons
TrendCross_nonStrict(d_prev, d_last) == d_prev[1] <= d_prev[2] /\ d_last[1] >= d_last[2]

\* check_signals: the daily crossover test
TrendCross(d_prev, d_last) == d_prev[1] < d_prev[2] /\ d_last[1] > d_last[2]

\* the if / elif / else of an open position with a strict take-profit test
OpenBranch_strictTP(price, entry, tp) ==
    IF 100 * price > entry * (100 + tp) THEN "tp"
    ELSE IF 100 * price <= entry * (100 - STOP_LOSS) THEN "sl"
    ELSE "else"

\* check_signals: the if / elif / else of an open position
OpenBranch(price, entry, tp) ==
    IF 100 * price >= entry * (100 + tp) THEN "tp"
    ELSE IF 100 * price <= entry * (100 - STOP_LOSS) THEN "sl"
    ELSE "else"

\* check_signals: the three assignments of an entry
OpenPosition(rec, price) ==
    [rec EXCEPT !.in_position = TRUE, !.entry_price = Some(price),
                !.take_profit = TAKE_PROFIT]

\* an exit that forgets entry_price
ClosePosition_keepEntry(rec) ==
    [rec EXCEPT !.in_position = FALSE, !.take_profit = TAKE_PROFIT]

\* an exit that forgets take_profit
ClosePosition_keepTP(rec) ==
    [rec EXCEPT !.in_position = FALSE, !.entry_price = None]

\* check_signals: the three assignments of an exit
ClosePosition(rec) ==
    [rec EXCEPT !.in_position = FALSE, !.entry_price = None,
                !.take_profit = TAKE_PROFIT]

\* a take_profit that follows the daily trend in both directions
TrendTakeProfit_follow(take_profit, d_prev, d_last) ==
    IF d_prev[1] < d_prev[2] /\ d_last[1] > d_last[2]
    THEN UPGRADED_TP
    ELSE TAKE_PROFIT

\* check_signals: the else branch of an open position, the new take_profit
TrendTakeProfit(take_profit, d_prev, d_last) ==
    IF TrendCross(d_prev, d_last) /\ take_profit # UPGRADED_TP
    THEN UPGRADED_TP
    ELSE take_profit

\* ------------------------------------------------------------ texts

\* format_signal_log
EntryText(sym, price, d_last) == <<"entry", sym, price, d_last[1], d_last[2]>>

\* the take-profit f-string
TakeProfitText(sym, tp, price, entry) == <<"tp", sym, tp, price, entry>>

\* format_stoploss_log
StopLossText(sym, price, entry, d_last) ==
    <<"sl", sym, price, entry, d_last[1], d_last[2]>>

\* the upgrade f-string
UpgradeText(sym) == <<"upgrade", sym>>

\* ------------------------------------------------------------ the program

Init ==
    /\ pc = "down"
    /\ creds \in BOOLEAN
    /\ now = 0
    /\ state = DefaultState
    /\ file = NoFile
    /\ idx = 0
    /\ loc = NoLocals
    /\ branch = "none"
    /\ msg = None
    /\ outcome = "none"
    /\ before = NoBefore
    /\ delivered = None
    /\ crashes = 0
    /\ signals = 0
    /\ tmp = NoFile
    /\ opened = NoOpened

\* __main__: the process starts, s = load_state(); save_state(s)
Main ==
    /\ pc = "down"
    /\ state' = LoadState(file)
    /\ file' = SaveState(LoadState(file), file)
    /\ pc' = "loop"
    /\ UNCHANGED <<creds, now, idx, loc, branch, msg, outcome, before, delivered,
                   crashes, signals>>
    /\ UNCHANGED <<tmp, opened>>

\* check_signals: state = load_state()
CycleStart ==
    /\ pc = "loop"
    /\ state' = LoadState(file)
    /\ idx' = 0
    /\ pc' = "iter"
    /\ UNCHANGED <<creds, now, file, loc, branch, msg, outcome, before,
                   delivered, crashes, signals>>
    /\ UNCHANGED <<tmp, opened>>

\* check_signals: the 4h download is empty or too short, `continue`
Skip4h ==
    /\ pc = "iter"
    /\ idx < Len(ASSETS)
    /\ idx' = idx + 1
    /\ before' = [rec |-> state.pos[ASSETS[idx + 1]],
                  global_last_msg |-> state.global_last_msg]
    /\ branch' = "skip4h"
    /\ pc' = "done"
    /\ \E n4 \in Frames4h :
         /\ TooFew4h(n4)
         /\ loc' = [NoLocals EXCEPT !.len4h = n4]
    /\ UNCHANGED <<creds, now, state, file, msg, outcome, delivered,
                   crashes, signals>>
    /\ UNCHANGED <<tmp, opened>>

\* check_signals: the 4h rows are read, the 1d download is empty or too short
Skip1d ==
    /\ pc = "iter"
    /\ idx < Len(ASSETS)
    /\ idx' = idx + 1
    /\ before' = [rec |-> state.pos[ASSETS[idx + 1]],
                  global_last_msg |-> state.global_last_msg]
    /\ \E n4 \in Frames4h, n1 \in Frames1d :
         /\ ~TooFew4h(n4)
         /\ TooFew1d(n1)
         /\ loc' = Locals(n4, n1)
    /\ branch' = "skip1d"
    /\ pc' = "done"
    /\ UNCHANGED <<creds, now, state, file, msg, outcome, delivered,
                   crashes, signals>>
    /\ UNCHANGED <<tmp, opened>>

\* check_signals: `if not state[symbol]["in_position"]`, up to the send_telegram call;
\* a downloaded value is drawn where the code first reads it
EvalFlat ==
    /\ pc = "iter"
    /\ idx < Len(ASSETS)
    /\ LET s == ASSETS[idx + 1] IN
       /\ ~state.pos[s].in_position
       /\ idx' = idx + 1
       /\ before' = [rec |-> state.pos[s], global_last_msg |-> state.global_last_msg]
       /\ \E n4 \in Frames4h, n1 \in Frames1d, prev \in EmaPairs, last \in EmaPairs :
            /\ ~TooFew4h(n4)
            /\ ~TooFew1d(n1)
            /\ IF EntryCross(prev, last)
               THEN \E price \in Prices, d_last \in EmaPairs :
                      /\ signals < MaxSignals
                      /\ signals' = signals + 1
                      /\ loc' = [Locals(n4, n1) EXCEPT !.prev = prev, !.last = last,
                                                       !.price = price, !.d_last = d_last]
                      /\ state' = [state EXCEPT !.pos[s] = OpenPosition(@, price)]
                      /\ msg' = Some(EntryText(s, price, d_last))
                      /\ branch' = "entry"
                      /\ pc' = "send"
                      /\ opened' = [opened EXCEPT
                                       ![s] = [rows |-> Some(<<prev, last>>),
                                               closed |-> FALSE]]
               ELSE /\ loc' = [Locals(n4, n1) EXCEPT !.prev = prev, !.last = last]
                    /\ branch' = "flat"
                    /\ pc' = "done"
                    /\ UNCHANGED <<state, msg, signals, opened>>
    /\ UNCHANGED <<creds, now, file, outcome, delivered, crashes>>
    /\ UNCHANGED tmp

\* check_signals: the else branch of an open position, up to the send_telegram call;
\* a downloaded value is drawn where the code first reads it
EvalOpen ==
    /\ pc = "iter"
    /\ idx < Len(ASSETS)
    /\ LET s == ASSETS[idx + 1]
           rec == state.pos[s]
           entry == rec.entry_price[1]
           tp == rec.take_profit
       IN
       /\ rec.in_position
       /\ idx' = idx + 1
       /\ before' = [rec |-> rec, global_last_msg |-> state.global_last_msg]
       /\ \E n4 \in Frames4h, n1 \in Frames1d, price \in Prices :
            /\ ~TooFew4h(n4)
            /\ ~TooFew1d(n1)
            /\ LET b == OpenBranch(price, entry, tp) IN
               CASE b = "tp" ->
                      /\ loc' = [Locals(n4, n1) EXCEPT !.price = price]
                      /\ msg' = Some(TakeProfitText(s, tp, price, entry))
                      /\ branch' = "tp"
                      /\ pc' = "send"
                      /\ UNCHANGED state
                 [] b = "sl" ->
                      \E d_last \in EmaPairs :
                        /\ loc' = [Locals(n4, n1) EXCEPT !.price = price,
                                                         !.d_last = d_last]
                        /\ msg' = Some(StopLossText(s, price, entry, d_last))
                        /\ branch' = "sl"
                        /\ pc' = "send"
                        /\ UNCHANGED state
                 [] OTHER ->
                      \E d_prev \in EmaPairs, d_last \in EmaPairs :
                        /\ loc' = [Locals(n4, n1) EXCEPT !.price = price,
                                                         !.d_prev = d_prev,
                                                         !.d_last = d_last]
                        /\ IF TrendTakeProfit(tp, d_prev, d_last) # tp
                           THEN /\ state' = [state EXCEPT !.pos[s].take_profit =
                                                 TrendTakeProfit(tp, d_prev, d_last)]
                                /\ msg' = Some(UpgradeText(s))
                                /\ branch' = "upgrade"
                                /\ pc' = "send"
                           ELSE /\ branch' = "hold"
                                /\ pc' = "done"
                                /\ UNCHANGED <<state, msg>>
       /\ IF pc' = "send"
          THEN signals < MaxSignals /\ signals' = signals + 1
          ELSE UNCHANGED signals
    /\ UNCHANGED <<creds, now, file, outcome, delivered, crashes>>
    /\ UNCHANGED <<tmp, opened>>

\* send_telegram: the credential test
SendNoCreds ==
    /\ pc = "send"
    /\ ~creds
    /\ outcome' = "nocreds"
    /\ pc' = "after"
    /\ UNCHANGED <<creds, now, state, file, idx, loc, branch, msg, before,
                   delivered, crashes, signals>>
    /\ UNCHANGED <<tmp, opened>>

\* send_telegram: should_send returns False
SendDenied ==
    /\ pc = "send"
    /\ creds
    /\ ~ShouldSend(state, symbol, msg[1], now)
    /\ outcome' = "denied"
    /\ pc' = "after"
    /\ UNCHANGED <<creds, now, state, file, idx, loc, branch, msg, before,
                   delivered, crashes, signals>>
    /\ UNCHANGED <<tmp, opened>>

\* send_telegram: should_send returns True, mark_sent
SendMark ==
    /\ pc = "send"
    /\ creds
    /\ ShouldSend(state, symbol, msg[1], now)
    /\ state' = MarkSent(state, symbol, msg[1], now)
    /\ file' = MarkSentSave(state', file)
    /\ delivered' = None
    /\ outcome' = "marked"
    /\ pc' = "post"
    /\ UNCHANGED <<creds, now, idx, loc, branch, msg, before, crashes, signals>>
    /\ UNCHANGED <<tmp, opened>>

\* send_telegram: requests.post, delivered or not
Post ==
    /\ pc = "post"
    /\ \E ok \in BOOLEAN :
         IF ok
         THEN /\ outcome' = "delivered"
              /\ delivered' = Some([sym |-> symbol, text |-> msg[1],
                                    ts |-> state.pos[symbol].last_msg[1].ts])
         ELSE /\ outcome' = "failed"
              /\ UNCHANGED delivered
    /\ pc' = "after"
    /\ UNCHANGED <<creds, now, state, file, idx, loc, branch, msg, before,
                   crashes, signals>>
    /\ UNCHANGED <<tmp, opened>>

\* an exit that closes the position only when its notification was delivered
After_closeWhenDelivered ==
    /\ pc = "after"
    /\ state' = IF branch \in {"tp", "sl"} /\ outcome = "delivered"
                THEN [state EXCEPT !.pos[symbol] = ClosePosition(@)]
                ELSE state
    /\ pc' = "done"
    /\ UNCHANGED <<creds, now, file, idx, loc, branch, msg, outcome, before,
                   delivered, crashes, signals>>
    /\ opened' = IF branch \in {"tp", "sl"} /\ outcome = "delivered"
                 THEN [opened EXCEPT ![symbol].closed = TRUE]
                 ELSE opened
    /\ UNCHANGED tmp

\* check_signals: what follows the send_telegram call in the branch taken
After ==
    /\ pc = "after"
    /\ state' = IF branch \in {"tp", "sl"}
                THEN [state EXCEPT !.pos[symbol] = ClosePosition(@)]
                ELSE state
    /\ pc' = "done"
    /\ UNCHANGED <<creds, now, file, idx, loc, branch, msg, outcome, before,
                   delivered, crashes, signals>>
    /\ opened' = IF branch \in {"tp", "sl"}
                 THEN [opened EXCEPT ![symbol].closed = TRUE]
                 ELSE opened
    /\ UNCHANGED tmp

\* check_signals: the body of the loop is over for this instrument
NextInstrument ==
    /\ pc = "done"
    /\ pc' = "iter"
    /\ loc' = NoLocals
    /\ branch' = "none"
    /\ msg' = None
    /\ outcome' = "none"
    /\ before' = NoBefore
    /\ UNCHANGED <<creds, now, state, file, idx, delivered, crashes, signals>>
    /\ UNCHANGED <<tmp, opened>>

\* check_signals: the loop is over, save_state(state)
CycleSave ==
    /\ pc = "iter"
    /\ idx = Len(ASSETS)
    /\ file' = SaveState(state, file)
    /\ pc' = "sleep"
    /\ UNCHANGED <<creds, now, state, idx, loc, branch, msg, outcome, before,
                   delivered, crashes, signals>>
    /\ UNCHANGED <<tmp, opened>>

\* __main__: time.sleep(60)
Sleep ==
    /\ pc = "sleep"
    /\ now + SLEEP_SECONDS <= MaxNow
    /\ now' = now + SLEEP_SECONDS
    /\ pc' = "loop"
    /\ UNCHANGED <<creds, state, file, idx, loc, branch, msg, outcome, before,
                   delivered, crashes, signals>>
    /\ UNCHANGED <<tmp, opened>>

\* the process dies: memory is lost, STATE_FILE and the channel keep what they hold
Crash ==
    /\ pc # "down"
    /\ crashes < MaxCrashes
    /\ crashes' = crashes + 1
    /\ pc' = "down"
    /\ state' = DefaultState
    /\ idx' = 0
    /\ loc' = NoLocals
    /\ branch' = "none"
    /\ msg' = None
    /\ outcome' = "none"
    /\ before' = NoBefore
    /\ UNCHANGED <<creds, now, file, delivered, signals>>
    /\ UNCHANGED <<tmp, opened>>

Next ==
    \/ Main
    \/ CycleStart
    \/ Skip4h
    \/ Skip1d
    \/ EvalFlat
    \/ EvalOpen
    \/ SendNoCreds
    \/ SendDenied
    \/ SendMark
    \/ Post
    \/ After
    \/ NextInstrument
    \/ CycleSave
    \/ Sleep
    \/ Crash

Spec == Init /\ [][Next]_vars

\* ------------------------------------------------------------ unexpected errors

\* a try block around the whole loop instead of its body: the error ends the cycle
Raise_endsCycle ==
    /\ \/ pc = "iter" /\ idx < Len(ASSETS)
       \/ pc \in {"send", "post", "after"}
    /\ branch' = "raised"
    /\ pc' = "sleep"
    /\ UNCHANGED <<creds, now, state, file, idx, loc, msg, outcome, before,
                   delivered, crashes, signals>>
    /\ UNCHANGED <<tmp, opened>>

\* check_signals: a statement of the loop body raises, before the branches (the
\* downloads' frames, the EMA columns, the rows) or inside one (send_telegram,
\* write_log); `except Exception` logs it and the loop goes on
Raise ==
    /\ \/ /\ pc = "iter"
          /\ idx < Len(ASSETS)
          /\ idx' = idx + 1
          /\ before' = [rec |-> state.pos[ASSETS[idx + 1]],
                        global_last_msg |-> state.global_last_msg]
       \/ /\ pc \in {"send", "post", "after"}
          /\ UNCHANGED <<idx, before>>
    /\ branch' = "raised"
    /\ pc' = "done"
    /\ UNCHANGED <<creds, now, state, file, loc, msg, outcome, delivered,
                   crashes, signals>>
    /\ UNCHANGED <<tmp, opened>>

\* STATE_FILE as a process killed between mark_sent and the exit assignments left
\* it: A open at 100, its take-profit text recorded at time 0
InterruptedExit ==
    SaveState(MarkSent([DefaultState EXCEPT !.pos["A"] = OpenPosition(@, 100)], "A",
                       TakeProfitText("A", TAKE_PROFIT, 140, 100), 0),
              NoFile)

\* the process starts with no state file or with the file an earlier process left
InitRaise ==
    /\ pc = "down"
    /\ creds \in BOOLEAN
    /\ now = 0
    /\ state = DefaultState
    /\ file \in {NoFile, InterruptedExit}
    /\ idx = 0
    /\ loc = NoLocals
    /\ branch = "none"
    /\ msg = None
    /\ outcome = "none"
    /\ before = NoBefore
    /\ delivered = None
    /\ crashes = 0
    /\ signals = 0
    /\ tmp = NoFile
    /\ opened = IF file = NoFile
                THEN NoOpened
                ELSE [NoOpened EXCEPT !["A"] = [rows |-> Some(<<(<<1, 2>>), (<<2, 1>>)>>),
                                                closed |-> FALSE]]

\* the program without crashes, with errors in the loop body
NextRaise ==
    \/ Main
    \/ CycleStart
    \/ Skip4h
    \/ Skip1d
    \/ EvalFlat
    \/ EvalOpen
    \/ SendNoCreds
    \/ SendDenied
    \/ SendMark
    \/ Post
    \/ After
    \/ NextInstrument
    \/ CycleSave
    \/ Sleep
    \/ Raise

\* the process executes its next statement as long as it has one
SpecRaise == InitRaise /\ [][NextRaise]_vars /\ WF_vars(NextRaise)

\* ------------------------------------------------------------ the dedup gate alone

InitGate ==
    /\ pc = "gate"
    /\ creds = TRUE
    /\ now = 0
    /\ state = DefaultState
    /\ file = NoFile
    /\ idx = 0
    /\ loc = NoLocals
    /\ branch = "none"
    /\ msg = None
    /\ outcome = "none"
    /\ before = NoBefore
    /\ delivered = None
    /\ crashes = 0
    /\ signals = 0
    /\ tmp = NoFile
    /\ opened = NoOpened

\* send_telegram with a state and a symbol: should_send returns True, mark_sent
GateAllow ==
    /\ pc = "gate"
    /\ \E i \in 1..Len(ASSETS), text \in GateTexts :
        /\ ShouldSend(state, ASSETS[i], text, now)
        /\ idx' = i
        /\ msg' = Some(text)
        /\ state' = MarkSent(state, ASSETS[i], text, now)
        /\ file' = MarkSentSave(state', file)
        /\ outcome' = "marked"
    /\ UNCHANGED <<pc, creds, now, loc, branch, before, delivered, crashes, signals>>
    /\ UNCHANGED <<tmp, opened>>

\* send_telegram with a state and a symbol: should_send returns False
GateDeny ==
    /\ pc = "gate"
    /\ \E i \in 1..Len(ASSETS), text \in GateTexts :
        /\ ~ShouldSend(state, ASSETS[i], text, now)
        /\ idx' = i
        /\ msg' = Some(text)
        /\ outcome' = "denied"
    /\ UNCHANGED <<pc, creds, now, state, file, loc, branch, before, delivered,
                   crashes, signals>>
    /\ UNCHANGED <<tmp, opened>>

\* time.time() between two calls
GateTick ==
    /\ pc = "gate"
    /\ \E d \in GateTicks :
        /\ now + d <= MaxGateNow
        /\ now' = now + d
    /\ UNCHANGED <<pc, creds, state, file, idx, loc, branch, msg, outcome,
                   before, delivered, crashes, signals>>
    /\ UNCHANGED <<tmp, opened>>

NextGate ==
    \/ GateAllow
    \/ GateDeny
    \/ GateTick

SpecGate == InitGate /\ [][NextGate]_vars

\* ------------------------------------------------------------ the state store alone

\* a record as check_signals leaves it after an entry at 100 and an upgrade,
\* with a notification recorded
UpgradedRecord ==
    [in_position |-> TRUE, entry_price |-> Some(100), take_profit |-> UPGRADED_TP,
     last_msg |-> Some([text |-> <<"Y">>, ts |-> 0])]

\* the state files the program may find when it starts: none; a truncated text; an
\* empty object; a document written before instrument B was configured; a document
\* whose records lack fields and which has no global record; a complete document
GivenFiles ==
    {NoFile,
     [exists |-> TRUE, valid |-> FALSE,
      doc |-> [pos |-> [s \in {"A"} |-> UpgradedRecord],
               has_global |-> FALSE, global_last_msg |-> None]],
     [exists |-> TRUE, valid |-> TRUE,
      doc |-> [pos |-> [s \in {} |-> DefaultPosition],
               has_global |-> FALSE, global_last_msg |-> None]],
     [exists |-> TRUE, valid |-> TRUE,
      doc |-> [pos |-> [s \in {"A"} |-> UpgradedRecord],
               has_global |-> TRUE,
               global_last_msg |-> Some([text |-> <<"Y">>, ts |-> 0])]],
     [exists |-> TRUE, valid |-> TRUE,
      doc |-> [pos |-> [s \in Symbols |->
                          IF s = "A"
                          THEN [in_position |-> TRUE, entry_price |-> Some(100)]
                          ELSE [take_profit |-> UPGRADED_TP]],
               has_global |-> FALSE, global_last_msg |-> None]],
     [exists |-> TRUE, valid |-> TRUE,
      doc |-> [pos |-> [s \in Symbols |-> UpgradedRecord],
               has_global |-> TRUE, global_last_msg |-> None]]}

\* json.dump: the text written so far holds the first n instruments of the snapshot
WrittenPart(st, n) ==
    [pos |-> [s \in {ASSETS[i] : i \in 1..n} |-> st.pos[s]],
     has_global |-> FALSE, global_last_msg |-> None]

\* the number of instruments json.dump has written to the temporary file
Written == Cardinality(DOMAIN tmp.doc.pos)

InitStore ==
    /\ pc = "start"
    /\ creds = TRUE
    /\ now = 0
    /\ state = DefaultState
    /\ file \in GivenFiles
    /\ idx = 0
    /\ loc = NoLocals
    /\ branch = "none"
    /\ msg = None
    /\ outcome = "none"
    /\ before = NoBefore
    /\ delivered = None
    /\ crashes = 0
    /\ signals = 0
    /\ tmp = NoFile
    /\ opened = NoOpened

\* load_state, at the start of the process and of every cycle
StoreLoad ==
    /\ pc \in {"start", "store", "saved"}
    /\ state' = LoadState(file)
    /\ pc' = "store"
    /\ UNCHANGED <<creds, now, file, idx, loc, branch, msg, outcome, before,
                   delivered, crashes, signals, tmp, opened>>

\* check_signals and mark_sent: an assignment to the snapshot
StoreMutate ==
    /\ pc \in {"store", "saved"}
    /\ \E s \in Symbols :
         \/ /\ ~state.pos[s].in_position
            /\ state' = [state EXCEPT !.pos[s] = OpenPosition(@, 100)]
         \/ /\ state.pos[s].in_position
            /\ state' = [state EXCEPT !.pos[s] = ClosePosition(@)]
         \/ /\ state.pos[s].in_position
            /\ state.pos[s].take_profit # UPGRADED_TP
            /\ state' = [state EXCEPT !.pos[s].take_profit = UPGRADED_TP]
         \/ /\ state.pos[s].last_msg = None
            /\ state' = MarkSent(state, s, <<"X">>, now)
    /\ pc' = "store"
    /\ UNCHANGED <<creds, now, file, idx, loc, branch, msg, outcome, before,
                   delivered, crashes, signals, tmp, opened>>

\* a save_state that opens STATE_FILE itself for writing
SaveOpen_inPlace ==
    /\ pc \in {"store", "saved"}
    /\ file' = [exists |-> TRUE, valid |-> FALSE, doc |-> WrittenPart(state, 0)]
    /\ tmp' = file'
    /\ pc' = "dump"
    /\ UNCHANGED <<creds, now, state, idx, loc, branch, msg, outcome, before,
                   delivered, crashes, signals, opened>>

\* save_state: open(tmp_file, "w") creates or truncates the temporary file
SaveOpen ==
    /\ pc \in {"store", "saved"}
    /\ tmp' = [exists |-> TRUE, valid |-> FALSE, doc |-> WrittenPart(state, 0)]
    /\ pc' = "dump"
    /\ UNCHANGED <<creds, now, state, file, idx, loc, branch, msg, outcome, before,
                   delivered, crashes, signals, opened>>

\* save_state: json.dump writes the next instrument, or the rest of the text, and
\* the with block closes the file
SaveDump ==
    /\ pc = "dump"
    /\ IF Written < Len(ASSETS)
       THEN /\ tmp' = [tmp EXCEPT !.doc = WrittenPart(state, Written + 1)]
            /\ pc' = "dump"
       ELSE /\ tmp' = [exists |-> TRUE, valid |-> TRUE, doc |-> state]
            /\ pc' = "replace"
    /\ UNCHANGED <<creds, now, state, file, idx, loc, branch, msg, outcome, before,
                   delivered, crashes, signals, opened>>

\* save_state: os.replace(tmp_file, STATE_FILE)
SaveReplace ==
    /\ pc = "replace"
    /\ file' = tmp
    /\ tmp' = NoFile
    /\ pc' = "saved"
    /\ UNCHANGED <<creds, now, state, idx, loc, branch, msg, outcome, before,
                   delivered, crashes, signals, opened>>

\* save_state: a write or the replace raises, the except clause logs it
SaveExcept ==
    /\ pc \in {"dump", "replace"}
    /\ pc' = "store"
    /\ UNCHANGED <<creds, now, state, file, idx, loc, branch, msg, outcome, before,
                   delivered, crashes, signals, tmp, opened>>

\* the process dies at any step, of save_state too, and is started again
StoreCrash ==
    /\ pc # "start"
    /\ pc' = "start"
    /\ state' = DefaultState
    /\ UNCHANGED <<creds, now, file, idx, loc, branch, msg, outcome, before,
                   delivered, crashes, signals, tmp, opened>>

NextStore ==
    \/ StoreLoad
    \/ StoreMutate
    \/ SaveOpen
    \/ SaveDump
    \/ SaveReplace
    \/ SaveExcept
    \/ StoreCrash

SpecStore == InitStore /\ [][NextStore]_vars

\* ------------------------------------------------------------ claims

\* entry_price is set exactly when in_position is true
Consistent(rec) == (rec.entry_price # None) <=> rec.in_position

\* the iteration of `symbol` has evaluated its branch and is not over
InIteration == pc \in {"send", "post", "after", "done"}

\* the 4h rows of this iteration cross upwards, both comparisons strict
StrictCross4h == loc.prev[1] < loc.prev[2] /\ loc.last[1] > loc.last[2]

\* the daily rows of this iteration cross upwards, both comparisons strict
StrictCross1d == loc.d_prev[1] < loc.d_prev[2] /\ loc.d_last[1] > loc.d_last[2]

\* the price of this iteration reaches the take-profit level of the position
AtTakeProfit ==
    100 * loc.price >= before.rec.entry_price[1] * (100 + before.rec.take_profit)

\* the price of this iteration reaches the stop-loss level of the position
AtStopLoss ==
    100 * loc.price <= before.rec.entry_price[1] * (100 - STOP_LOSS)

\* the position fields of the instrument are those its iteration began with
PositionUnchanged ==
    /\ state.pos[symbol].in_position = before.rec.in_position
    /\ state.pos[symbol].entry_price = before.rec.entry_price
    /\ state.pos[symbol].take_profit = before.rec.take_profit

\* C1: in every reachable state, with crashes and restarts, every instrument of the
\* snapshot in memory, of the state file, and of what load_state returns from the
\* file has entry_price non-null exactly when in_position is true.
C1_EntryPriceIffInPosition ==
    \A s \in Symbols :
        /\ Consistent(state.pos[s])
        /\ file.exists => Consistent(file.doc.pos[s])
        /\ Consistent(LoadState(file).pos[s])

\* C1 witness: after a crash and a restart, an exit has closed a position that was
\* loaded from the state file.
C1_Witness ==
    /\ crashes >= 1
    /\ pc = "done"
    /\ branch \in {"tp", "sl"}
    /\ before.rec.in_position
    /\ ~state.pos[symbol].in_position
    /\ state.pos[symbol].entry_price = None

\* C2: a flat instrument whose downloads succeed opens in this cycle exactly when
\* prev.EMA_SHORT < prev.EMA_LONG and last.EMA_SHORT > last.EMA_LONG; when it opens,
\* entry_price is the last close and take_profit is TAKE_PROFIT; otherwise its
\* position fields are unchanged.
C2_EntryIffStrictCross ==
    (InIteration /\ branch \in {"entry", "flat"}) =>
        /\ ~before.rec.in_position
        /\ state.pos[symbol].in_position <=> StrictCross4h
        /\ (branch = "entry") <=> StrictCross4h
        /\ StrictCross4h =>
             /\ state.pos[symbol].entry_price = Some(loc.price)
             /\ state.pos[symbol].take_profit = TAKE_PROFIT
        /\ ~StrictCross4h => PositionUnchanged

\* C2 witness: a flat instrument has opened at the last close.
C2_Witness ==
    /\ pc = "done"
    /\ branch = "entry"
    /\ ~before.rec.in_position
    /\ state.pos[symbol].in_position
    /\ state.pos[symbol].entry_price = Some(loc.price)

\* C3: for an open instrument the take-profit exit is taken exactly when
\* price >= entry*(1+take_profit/100), the stop-loss exit exactly when it is not and
\* price <= entry*(1-STOP_LOSS/100), and the upgrade is evaluated only when neither
\* holds; an exit leaves take_profit as it was until the position closes, and an
\* upgrade leaves the position open at its entry price.
C3_OneTransitionInOrder ==
    (InIteration /\ branch \in {"tp", "sl", "upgrade", "hold"}) =>
        /\ before.rec.in_position
        /\ (branch = "tp") <=> AtTakeProfit
        /\ (branch = "sl") <=> (~AtTakeProfit /\ AtStopLoss)
        /\ (branch \in {"upgrade", "hold"}) <=> (~AtTakeProfit /\ ~AtStopLoss)
        /\ branch \in {"tp", "sl"} =>
             /\ loc.d_prev = NoLocals.d_prev
             /\ state.pos[symbol].take_profit # before.rec.take_profit
                    => (pc = "done" /\ state.pos[symbol].take_profit = TAKE_PROFIT)
             /\ pc = "done" => ~state.pos[symbol].in_position
        /\ branch \in {"upgrade", "hold"} =>
             /\ state.pos[symbol].in_position
             /\ state.pos[symbol].entry_price = before.rec.entry_price

\* C3 witness: a take-profit exit at a price equal to entry*(1+take_profit/100).
C3_Witness ==
    /\ pc = "done"
    /\ branch = "tp"
    /\ 100 * loc.price = before.rec.entry_price[1] * (100 + before.rec.take_profit)

\* C4: when a position has closed by a take-profit or a stop-loss exit, at the end
\* of the instrument's iteration in_position is false, entry_price is null and
\* take_profit is TAKE_PROFIT.
C4_ExitResetsPosition ==
    (pc = "done" /\ branch \in {"tp", "sl"}) =>
        /\ ~state.pos[symbol].in_position
        /\ state.pos[symbol].entry_price = None
        /\ state.pos[symbol].take_profit = TAKE_PROFIT

\* C4 witness: an exit of a position whose take_profit was UPGRADED_TP.
C4_Witness ==
    /\ pc = "done"
    /\ branch \in {"tp", "sl"}
    /\ before.rec.take_profit = UPGRADED_TP
    /\ state.pos[symbol].take_profit = TAKE_PROFIT

\* C5: no step of the program, a crash and a restart included, takes an open
\* instrument whose take_profit is UPGRADED_TP to an open instrument with another
\* take_profit, in the snapshot in memory or in the state file.
C5_UpgradeIsMonotonic ==
    [][\A s \in Symbols :
         /\ (/\ state.pos[s].in_position
             /\ state.pos[s].take_profit = UPGRADED_TP
             /\ state'.pos[s].in_position)
            => state'.pos[s].take_profit = UPGRADED_TP
         /\ (/\ file.exists
             /\ file.doc.pos[s].in_position
             /\ file.doc.pos[s].take_profit = UPGRADED_TP
             /\ file'.doc.pos[s].in_position)
            => file'.doc.pos[s].take_profit = UPGRADED_TP]_vars

\* C5 witness: an upgraded position has gone through a cycle whose daily EMA100 is
\* below EMA200 and is still upgraded.
C5_Witness ==
    /\ pc = "done"
    /\ branch = "hold"
    /\ before.rec.take_profit = UPGRADED_TP
    /\ loc.d_last[1] < loc.d_last[2]
    /\ state.pos[symbol].in_position
    /\ state.pos[symbol].take_profit = UPGRADED_TP

\* C6: for an open instrument, a cycle whose price is strictly between the stop-loss
\* and the take-profit level and whose daily crossover does not fire leaves
\* in_position, entry_price, take_profit and last_msg unchanged and calls
\* send_telegram for nothing.
C6_HoldChangesNothing ==
    (/\ InIteration
     /\ branch \in {"tp", "sl", "upgrade", "hold"}
     /\ ~AtTakeProfit
     /\ ~AtStopLoss
     /\ ~StrictCross1d) =>
        /\ pc = "done"
        /\ branch = "hold"
        /\ outcome = "none"
        /\ msg = None
        /\ state.pos[symbol] = before.rec
        /\ state.global_last_msg = before.global_last_msg

\* C6 witness: the daily EMA100 is above EMA200 after a day on which they were equal,
\* and the position is as it was.
C6_Witness ==
    /\ pc = "done"
    /\ branch = "hold"
    /\ ~AtTakeProfit
    /\ ~AtStopLoss
    /\ loc.d_prev[1] = loc.d_prev[2]
    /\ loc.d_last[1] > loc.d_last[2]
    /\ before.rec.take_profit = TAKE_PROFIT
    /\ state.pos[symbol] = before.rec

\* C7: while text X sent for instrument A at time t is A's last_msg, should_send
\* denies X for A at every time in [t, t+60); it allows X for A from t+61 on when
\* the global record is still that message; and a text other than X is denied for A
\* only by the global rule.
C7_InstrumentWindow ==
    \A a \in Symbols :
        LET lm == state.pos[a].last_msg
            g == state.global_last_msg
        IN
        lm # None =>
            \A age \in 0..MaxAge :
                /\ age < 60 => ~ShouldSend(state, a, lm[1].text, lm[1].ts + age)
                /\ (age >= 61 /\ g = lm)
                       => ShouldSend(state, a, lm[1].text, lm[1].ts + age)
                /\ \A x \in GateTexts \ {lm[1].text} :
                       ShouldSend(state, a, x, lm[1].ts + age)
                           <=> ~(/\ g # None
                                 /\ g[1].text = x
                                 /\ lm[1].ts + age - g[1].ts < 10)

\* C7 witness: the text sent for the instrument 11 seconds ago is denied for it.
C7_Witness ==
    /\ pc = "gate"
    /\ outcome = "denied"
    /\ state.pos[symbol].last_msg = Some([text |-> msg[1], ts |-> now - 11])

\* C8: while text Y sent for instrument A at time t is the global record, should_send
\* denies Y for another instrument B whose own last_msg is not Y at every time in
\* [t, t+10) and allows it from t+11 on.
C8_GlobalWindow ==
    \A a \in Symbols, b \in Symbols :
        LET g == state.global_last_msg
            lb == state.pos[b].last_msg
        IN
        (/\ a # b
         /\ g # None
         /\ state.pos[a].last_msg = g
         /\ (lb = None \/ lb[1].text # g[1].text)) =>
            \A age \in 0..MaxAge :
                /\ age < 10 => ~ShouldSend(state, b, g[1].text, g[1].ts + age)
                /\ age >= 11 => ShouldSend(state, b, g[1].text, g[1].ts + age)

\* C8 witness: the text sent for another instrument 5 seconds ago is denied for an
\* instrument whose own last_msg is not that text.
C8_Witness ==
    /\ pc = "gate"
    /\ outcome = "denied"
    /\ state.global_last_msg = Some([text |-> msg[1], ts |-> now - 5])
    /\ \/ state.pos[symbol].last_msg = None
       \/ state.pos[symbol].last_msg[1].text # msg[1]
    /\ \E a \in Symbols \ {symbol} : state.pos[a].last_msg = state.global_last_msg

\* C9: a send_telegram call that ends without a delivery (missing credentials, denied
\* by should_send, or a failed requests.post) leaves the instrument's last_msg and
\* global_last_msg as they were.
C9_RecordOnlyOnDelivery ==
    (pc \in {"after", "done"} /\ outcome \in {"nocreds", "denied", "failed"}) =>
        /\ state.pos[symbol].last_msg = before.rec.last_msg
        /\ state.global_last_msg = before.global_last_msg

\* C10: as long as no other text has been recorded, the state file holds the text
\* the channel accepted and its timestamp under the instrument's last_msg and under
\* global_last_msg, load_state returns them, and should_send on the loaded snapshot
\* denies the same text for the instrument inside the 60 second window; this holds in
\* every state, so also when the process is down after a crash and after its restart.
C10_DeliveredIsPersisted ==
    delivered # None =>
        LET d == delivered[1]
            st == LoadState(file)
            sent == Some([text |-> d.text, ts |-> d.ts])
        IN
        /\ file.exists
        /\ st.pos[d.sym].last_msg = sent
        /\ st.global_last_msg = sent
        /\ \A age \in 0..59 : ~ShouldSend(st, d.sym, d.text, d.ts + age)

\* C10 witness: the process has crashed after a delivery and the state file holds
\* the delivered text.
C10_Witness ==
    /\ pc = "down"
    /\ crashes >= 1
    /\ delivered # None
    /\ file.doc.pos[delivered[1].sym].last_msg =
           Some([text |-> delivered[1].text, ts |-> delivered[1].ts])

\* C11: no step of save_state, and no crash at any step of it, changes STATE_FILE
\* except the os.replace that puts the complete document of the snapshot in its
\* place: the file is as it was before the save (absent included) or holds the whole
\* new document, and a crash leaves it as it was.
C11_SaveIsAtomic ==
    [][/\ file' # file =>
            /\ pc = "replace"
            /\ file' = [exists |-> TRUE, valid |-> TRUE, doc |-> state]
       /\ pc' = "start" => file' = file]_vars

\* C11 witness: the process died while json.dump was writing; the temporary file is
\* truncated and STATE_FILE holds, whole, the document of an earlier save.
C11_Witness ==
    /\ pc = "start"
    /\ tmp.exists
    /\ ~tmp.valid
    /\ Written = 1
    /\ file.exists
    /\ file.valid
    /\ DOMAIN file.doc.pos = Symbols
    /\ DOMAIN file.doc.pos["A"] = Fields
    /\ file.doc.pos["A"].last_msg = Some([text |-> <<"X">>, ts |-> 0])
    /\ file.doc.pos["A"] # tmp.doc.pos["A"]

\* C12: load_state, called when save_state has just put snapshot S in STATE_FILE,
\* returns a snapshot with the record of S for every instrument and the global
\* record of S; S is any snapshot the program holds, the default one included.
C12_SaveLoadRoundTrip ==
    [][(pc = "saved" /\ StoreLoad) =>
           /\ \A s \in Symbols : state'.pos[s] = state.pos[s]
           /\ state'.global_last_msg = state.global_last_msg]_vars

\* C12 witness: the default snapshot of a first run was saved and loaded again.
C12_Witness ==
    /\ pc = "store"
    /\ file = SaveState(DefaultState, NoFile)
    /\ state = LoadState(file)
    /\ state.pos = DefaultState.pos
    /\ state.has_global

\* C13: load_state on a file json.load accepts returns, for every configured
\* instrument, the default record when the document has none, and otherwise every
\* field the document holds with its value and every other field with its default
\* (in_position false, entry_price null, take_profit TAKE_PROFIT, last_msg null);
\* global_last_msg is the document's, or null when the document has none.
C13_DefaultFill ==
    [][(StoreLoad /\ file.exists /\ file.valid) =>
           /\ \A s \in Symbols :
                IF s \in DOMAIN file.doc.pos
                THEN LET given == file.doc.pos[s]
                         got == state'.pos[s]
                     IN
                     /\ got.in_position =
                            IF "in_position" \in DOMAIN given
                            THEN given.in_position ELSE FALSE
                     /\ got.entry_price =
                            IF "entry_price" \in DOMAIN given
                            THEN given.entry_price ELSE None
                     /\ got.take_profit =
                            IF "take_profit" \in DOMAIN given
                            THEN given.take_profit ELSE 40
                     /\ got.last_msg =
                            IF "last_msg" \in DOMAIN given
                            THEN given.last_msg ELSE None
                ELSE state'.pos[s] =
                         [in_position |-> FALSE, entry_price |-> None,
                          take_profit |-> 40, last_msg |-> None]
           /\ state'.global_last_msg =
                  IF file.doc.has_global THEN file.doc.global_last_msg ELSE None]_vars

\* C13 witness: a document without instrument B was loaded: B has the defaults and A
\* has the record of the document.
C13_Witness ==
    /\ pc = "store"
    /\ file.exists
    /\ file.valid
    /\ DOMAIN file.doc.pos = {"A"}
    /\ state = LoadState(file)
    /\ state.pos["A"] = UpgradedRecord
    /\ state.pos["B"] = DefaultPosition

\* C14: load_state on a state file that cannot be read or parsed returns the default
\* snapshot (every instrument flat, entry_price null, take_profit TAKE_PROFIT,
\* last_msg null, no global record) and the process goes on.
C14_CorruptFileGivesDefaults ==
    [][(StoreLoad /\ file.exists /\ ~file.valid) =>
           /\ pc' = "store"
           /\ \A s \in Symbols :
                state'.pos[s] = [in_position |-> FALSE, entry_price |-> None,
                                 take_profit |-> 40, last_msg |-> None]
           /\ state'.global_last_msg = None
           /\ ~state'.has_global]_vars

\* C14 witness: the process started on a truncated state file that holds part of an
\* open position, and runs with the default snapshot.
C14_Witness ==
    /\ pc = "store"
    /\ file.exists
    /\ ~file.valid
    /\ file.doc.pos["A"].in_position
    /\ state = DefaultState

\* C15: when check_signals has finished an instrument and moves on to the next one,
\* STATE_FILE holds the snapshot in memory: every instrument's record and the global
\* record are those load_state would return.
C15_SavedAfterEachInstrument ==
    pc = "done" =>
        /\ file.exists
        /\ \A s \in Symbols : LoadState(file).pos[s] = state.pos[s]
        /\ LoadState(file).global_last_msg = state.global_last_msg

\* the times at which a cycle runs
CycleTimes == {t \in 0..MaxNow : t % SLEEP_SECONDS = 0}

\* C16: when the processing of an instrument has raised, the error has been caught
\* and the loop is at the end of that instrument's iteration; from there, in the
\* same cycle, the loop takes every remaining instrument of ASSETS and the
\* save_state at the end of the cycle writes the snapshot to STATE_FILE.
C16_ErrorIsIsolated ==
    \A i \in 1..Len(ASSETS), t \in CycleTimes :
        (branch = "raised" /\ idx = i /\ now = t)
            ~> (/\ pc = "sleep"
                /\ idx = Len(ASSETS)
                /\ now = t
                /\ file = SaveState(state, file))

\* C16 witness: the first instrument raised after its exit notification was
\* delivered; the error was caught, the position is still open, and the second
\* instrument is still to come.
C16_Witness ==
    /\ pc = "done"
    /\ branch = "raised"
    /\ idx = 1
    /\ idx < Len(ASSETS)
    /\ outcome = "delivered"
    /\ state.pos[symbol].in_position

\* in_position, entry_price and take_profit of a record
PositionFields(rec) == <<rec.in_position, rec.entry_price, rec.take_profit>>

\* the position fields one iteration gives a record, from the frames, the price and
\* the EMA rows alone
PositionAfter(rec, l) ==
    IF TooFew4h(l.len4h) \/ TooFew1d(l.len1d)
    THEN PositionFields(rec)
    ELSE IF ~rec.in_position
    THEN IF EntryCross(l.prev, l.last)
         THEN <<TRUE, Some(l.price), TAKE_PROFIT>>
         ELSE PositionFields(rec)
    ELSE IF OpenBranch(l.price, rec.entry_price[1], rec.take_profit) \in {"tp", "sl"}
    THEN <<FALSE, None, TAKE_PROFIT>>
    ELSE <<TRUE, rec.entry_price,
           TrendTakeProfit(rec.take_profit, l.d_prev, l.d_last)>>

\* C17: while the process runs, the position fields do not depend on what happens to
\* a notification. At the end of an instrument's iteration its in_position,
\* entry_price and take_profit are a function of the record the iteration began
\* with and of the frames, the price and the EMA rows, whether the notification was
\* delivered, failed, was skipped for missing credentials or was denied; an iteration
\* changes no other instrument's position fields; and the next cycle loads the
\* position fields the cycle ended with.
C17_PositionsIgnoreNotifications ==
    [][/\ (pc' = "done" /\ branch' # "raised") =>
            PositionFields(state'.pos[ASSETS[idx']]) = PositionAfter(before'.rec, loc')
       /\ (pc' \in {"send", "post", "after", "done"}) =>
            \A s \in Symbols \ {ASSETS[idx']} :
                PositionFields(state'.pos[s]) = PositionFields(state.pos[s])
       /\ pc' = "loop" =>
            \A s \in Symbols :
                PositionFields(LoadState(file').pos[s]) = PositionFields(state'.pos[s])
      ]_vars

\* C17 witness: an exit whose notification was denied by should_send has closed the
\* position.
C17_Witness ==
    /\ pc = "done"
    /\ branch \in {"tp", "sl"}
    /\ outcome = "denied"
    /\ before.rec.in_position
    /\ PositionFields(state.pos[symbol]) = <<FALSE, None, TAKE_PROFIT>>

\* C18: when safe_download returns an empty 4h frame or fewer than 202 4h rows, or
\* an empty 1d frame or fewer than 201 1d rows, the iteration is over at once: the
\* instrument's record (in_position, entry_price, take_profit, last_msg) and the
\* global record are as they were, send_telegram is not called, and the loop goes on
\* to the next instrument.
C18_InsufficientDataSkips ==
    (InIteration /\ (loc.len4h < 202 \/ loc.len1d < 201)) =>
        /\ pc = "done"
        /\ branch \in {"skip4h", "skip1d"}
        /\ state.pos[symbol] = before.rec
        /\ state.global_last_msg = before.global_last_msg
        /\ msg = None
        /\ outcome = "none"

\* C18 witness: an open position is skipped because the 1d frame has 200 rows.
C18_Witness ==
    /\ pc = "done"
    /\ branch = "skip1d"
    /\ loc.len4h = 202
    /\ loc.len1d = 200
    /\ before.rec.in_position
    /\ state.pos[symbol] = before.rec

\* C19: when mark_sent has written a notification's record to STATE_FILE, the
\* instrument's record in the file already shows the transition the text announces:
\* in_position true and entry_price set for an entry, in_position false, entry_price
\* null and take_profit TAKE_PROFIT for a take-profit or a stop-loss exit.
C19_PersistedRecordMatchesNotification ==
    (pc = "post" /\ file.doc.pos[symbol].last_msg = Some([text |-> msg[1], ts |-> now])) =>
        LET rec == file.doc.pos[symbol] IN
        /\ branch = "entry" => (rec.in_position /\ rec.entry_price # None)
        /\ branch \in {"tp", "sl"} =>
              /\ ~rec.in_position
              /\ rec.entry_price = None
              /\ rec.take_profit = TAKE_PROFIT

\* C20: an instrument whose position was opened by a pair of 4h rows and then closed
\* by take-profit or stop-loss is not opened again by the same pair of rows.
C20_OneCrossoverOnePosition ==
    [][(pc = "iter" /\ branch' = "entry") =>
          ~(/\ opened[ASSETS[idx']].closed
            /\ opened[ASSETS[idx']].rows = Some(<<loc'.prev, loc'.last>>))]_vars

====
